---- MODULE Spec2Model ----
(***************************************************************************)
(* A model of main.py of GlobalFreightDataScraper: the enumeration of      *)
(* company links per country, the extraction of company details and        *)
(* contact details, the assembly of records, the export, and the upsert    *)
(* of the records into the storage table.                                  *)
(*                                                                         *)
(* Texts the program transforms (strip, split, join, replace, json.dumps)  *)
(* are sequences of one-character strings.  A Python dict is a function    *)
(* whose DOMAIN is its key set; the empty dict {} is EmptyDict.  The       *)
(* matches of a CSS selector are a sequence: empty when nothing matches.   *)
(***************************************************************************)
EXTENDS Integers, Sequences, FiniteSets, TLC

VARIABLES pc, debug_mode, locations, li, ei, counter, allCompanyUrls,
          response, ui, detail_results, resultObjs, exported,
          db_connection, table, session, table0, ri, errAt, dbError,
          queried, calls, runs, fn, result

vars == <<pc, debug_mode, locations, li, ei, counter, allCompanyUrls,
          response, ui, detail_results, resultObjs, exported,
          db_connection, table, session, table0, ri, errAt, dbError,
          queried, calls, runs, fn, result>>

(***************************************************************************)
(* Bounds of the model.                                                    *)
(***************************************************************************)
MaxLocations == 6
MaxUrls == 2
MaxRecords == 2
MaxRuns == 2

(***************************************************************************)
(* Python values.                                                          *)
(***************************************************************************)
EmptyDict == [k \in {} |-> <<>>]

None == "None"

\* {**a, **b}: the keys of both, b's value where both have the key.
Merge(a, b) ==
  [k \in (DOMAIN a) \cup (DOMAIN b) |-> IF k \in DOMAIN b THEN b[k] ELSE a[k]]

Whitespace == {" ", "\n"}

RECURSIVE LStrip(_)
LStrip(s) ==
  IF s = <<>> THEN <<>>
  ELSE IF Head(s) \in Whitespace THEN LStrip(Tail(s)) ELSE s

RECURSIVE RStrip(_)
RStrip(s) ==
  IF s = <<>> THEN <<>>
  ELSE IF s[Len(s)] \in Whitespace THEN RStrip(SubSeq(s, 1, Len(s) - 1)) ELSE s

\* str.strip()
Strip(s) == RStrip(LStrip(s))

\* str.split('\n'): the pieces between line breaks, empty pieces included.
RECURSIVE SplitLines(_)
SplitLines(s) ==
  IF \A i \in 1..Len(s) : s[i] # "\n" THEN <<s>>
  ELSE LET i == CHOOSE j \in 1..Len(s) :
                   s[j] = "\n" /\ \A k \in 1..(j - 1) : s[k] # "\n"
       IN  <<SubSeq(s, 1, i - 1)>> \o SplitLines(SubSeq(s, i + 1, Len(s)))

\* '\n'.join(lines)
RECURSIVE JoinLines(_)
JoinLines(lines) ==
  IF lines = <<>> THEN <<>>
  ELSE IF Len(lines) = 1 THEN lines[1]
  ELSE lines[1] \o <<"\n">> \o JoinLines(Tail(lines))

\* '\n'.join([line.strip() for line in text.split('\n')]).strip()
NormalizeAddress(text) ==
  LET lines == SplitLines(text)
  IN  Strip(JoinLines([i \in 1..Len(lines) |-> Strip(lines[i])]))

StartsWith(s, p) == Len(s) >= Len(p) /\ SubSeq(s, 1, Len(p)) = p

\* str.replace(p, ""): every occurrence of the non-empty p removed, left to right.
RECURSIVE Remove(_, _)
Remove(s, p) ==
  IF s = <<>> THEN <<>>
  ELSE IF StartsWith(s, p) THEN Remove(SubSeq(s, Len(p) + 1, Len(s)), p)
  ELSE <<Head(s)>> \o Remove(Tail(s), p)

\* json.dumps of a list of strings: ["a", "b"]
RECURSIVE JsonItems(_)
JsonItems(items) ==
  IF items = <<>> THEN <<>>
  ELSE IF Len(items) = 1 THEN <<"\"">> \o items[1] \o <<"\"">>
  ELSE <<"\"">> \o items[1] \o <<"\"">> \o <<",", " ">> \o JsonItems(Tail(items))

json_dumps(items) == <<"[">> \o JsonItems(items) \o <<"]">>

(***************************************************************************)
(* A response of the site: the request fails (network error or timeout,    *)
(* requests.get/post raises) or returns a page.  A page is modelled by     *)
(* what the program's selectors match on it.                               *)
(***************************************************************************)
NetFailures == {"neterr", "timeout"}

Failed(kind) == [net |-> kind]

Page(p) == [net |-> "ok", page |-> p]

NoResponse == [net |-> "none"]

(***************************************************************************)
(* get_company_urls: the listing page is the sequence of the anchors       *)
(* under company-name elements, in document order; an anchor is <<href>>,  *)
(* or <<>> when it has no href attribute (a['href'] raises KeyError).      *)
(***************************************************************************)
get_company_urls_skips(resp, country_name) ==
  IF resp.net # "ok" THEN <<>>
  ELSE LET withHref == SelectSeq(resp.page, LAMBDA a : a # <<>>)
       IN  [i \in 1..Len(withHref) |-> <<country_name, withHref[i][1]>>]

get_company_urls(resp, country_name) ==
  IF resp.net # "ok" THEN <<>>
  ELSE IF \E i \in 1..Len(resp.page) : resp.page[i] = <<>> THEN <<>>
  ELSE [i \in 1..Len(resp.page) |-> <<country_name, resp.page[i][1]>>]

(***************************************************************************)
(* scrape_company_details: the detail page gives the matches of the four   *)
(* selectors: h1 (the heading's text), address (the address block's text), *)
(* services (the services block, as the texts of its list items) and       *)
(* company (the data-company attribute of the marker element).  select_one *)
(* gives None when nothing matches and the access on None raises; select   *)
(* gives the empty list.                                                   *)
(***************************************************************************)
ServiceItems(page) == IF page.services = <<>> THEN <<>> ELSE page.services[1]

DetailsOf(page) ==
  [CompanyName |-> Strip(page.h1[1]),
   Address |-> NormalizeAddress(page.address[1]),
   OfferedServices |-> [i \in 1..Len(ServiceItems(page)) |-> Strip(ServiceItems(page)[i])],
   CompanyId |-> Strip(page.company[1])]

scrape_company_details_partial(resp) ==
  IF resp.net # "ok" THEN EmptyDict
  ELSE IF resp.page.h1 = <<>> \/ resp.page.company = <<>> THEN EmptyDict
  ELSE IF resp.page.address = <<>>
       THEN [CompanyName |-> Strip(resp.page.h1[1]),
             CompanyId |-> Strip(resp.page.company[1])]
  ELSE DetailsOf(resp.page)

scrape_company_details(resp) ==
  IF resp.net # "ok" THEN EmptyDict
  ELSE IF resp.page.h1 = <<>> THEN EmptyDict
  ELSE IF resp.page.address = <<>> THEN EmptyDict
  ELSE IF resp.page.company = <<>> THEN EmptyDict
  ELSE DetailsOf(resp.page)

(***************************************************************************)
(* get_contact_details: the contact fragment gives, per icon, the anchor   *)
(* matched: <<>> when there is none, else <<a>> with a the anchor, itself  *)
(* <<href>> or <<>> when it has no href attribute (KeyError).              *)
(***************************************************************************)
TelPrefix == <<"t", "e", "l", ":">>

MailtoPrefix == <<"m", "a", "i", "l", "t", "o", ":">>

ContactIcons == {"phone", "mail", "site"}

get_contact_details(resp) ==
  IF resp.net # "ok" THEN EmptyDict
  ELSE IF \E icon \in ContactIcons :
            resp.page[icon] # <<>> /\ resp.page[icon][1] = <<>> THEN EmptyDict
  ELSE [Phone |-> IF resp.page.phone # <<>>
                  THEN Remove(resp.page.phone[1][1], TelPrefix) ELSE <<>>,
        Email |-> IF resp.page.mail # <<>>
                  THEN Remove(resp.page.mail[1][1], MailtoPrefix) ELSE <<>>,
        Website |-> IF resp.page.site # <<>> THEN resp.page.site[1][1] ELSE <<>>]

(***************************************************************************)
(* The inputs of the model: the responses the site may give, the           *)
(* locations files, the tables the storage may hold at the start.          *)
(***************************************************************************)
Alpha == <<"/c/alpha">>

Beta == <<"/c/beta">>

NoHref == <<>>

ListingPages == {<<>>, <<Alpha>>, <<Alpha, Beta>>, <<Beta, NoHref>>}

ListingResponses ==
  {Failed(k) : k \in NetFailures} \cup {Page(p) : p \in ListingPages}

NameText == <<" ", "A", " ">>

AddressText == <<" ", "x", " ", "\n", " ", "y", "\n">>

ServiceBlocks == {<<>>, << <<>> >>, << <<<<" ", "s">>>> >>, << <<<<"s">>, <<"t", " ">>>> >>}

CompanyAttrs == {<<>>, <<<<"1">>>>, <<<<" ", "2", " ">>>>, <<<<" ">>>>, <<<<>>>>}

DetailPages ==
  [h1 : {<<>>, <<NameText>>}, address : {<<>>, <<AddressText>>},
   services : ServiceBlocks, company : CompanyAttrs]

DetailResponses ==
  {Failed(k) : k \in NetFailures} \cup {Page(p) : p \in DetailPages}

FullPage(attr) ==
  [h1 |-> <<NameText>>, address |-> <<AddressText>>,
   services |-> << <<<<" ", "s">>>> >>, company |-> <<attr>>]

\* The detail responses the runs of main draw from.
SiteDetailResponses ==
  {Failed(k) : k \in NetFailures}
    \cup {Page(FullPage(<<" ", "1", " ">>)), Page(FullPage(<<" ">>)),
          Page([FullPage(<<"1">>) EXCEPT !.h1 = <<>>])}

PhoneAnchors == {<<>>, <<NoHref>>, <<<<TelPrefix \o <<"5">>>>>>}

MailAnchors == {<<>>, <<NoHref>>, <<<<MailtoPrefix \o <<"m">>>>>>}

SiteAnchors == {<<>>, <<NoHref>>, <<<<<<"w">>>>>>}

ContactPages == [phone : PhoneAnchors, mail : MailAnchors, site : SiteAnchors]

ContactResponses ==
  {Failed(k) : k \in NetFailures} \cup {Page(p) : p \in ContactPages}

\* The contact responses the runs of main draw from.
SiteContactResponses ==
  {Failed(k) : k \in NetFailures}
    \cup {Page([phone |-> <<>>, mail |-> <<>>, site |-> <<>>]),
          Page([phone |-> <<>>, mail |-> <<<<MailtoPrefix \o <<"m">>>>>>, site |-> <<>>])}

\* A location of locations.json maps country names to their listing paths;
\* it is modelled by its country names, in the order items() gives them.
LocationShapes == {<<>>, <<"DE">>, <<"DE", "FR">>}

SeqsUpTo(S, n) == UNION {[1..k -> S] : k \in 0..n}

LocationFiles == SeqsUpTo(LocationShapes, MaxLocations)

MainLocationFiles ==
  {<<>>, << <<"DE", "FR">> >>,
   << <<"DE", "FR">>, <<>>, <<"DE">>, <<"DE", "FR">>, <<"FR">>, <<"DE">> >>}

Columns ==
  {"CompanyId", "CompanyName", "Address", "OfferedServices",
   "Phone", "Email", "Website", "Country"}

OldRow ==
  [CompanyId |-> <<"1">>, CompanyName |-> <<"O">>, Address |-> <<"o">>,
   OfferedServices |-> json_dumps(<<>>), Phone |-> <<>>, Email |-> <<>>,
   Website |-> <<>>, Country |-> "DE"]

MainTables == {<<OldRow>>}

(***************************************************************************)
(* main(), lines 187-197: the enumeration loop.                            *)
(***************************************************************************)
DebugCap == 5

BreakAtCapLate(c) == debug_mode /\ c > DebugCap

\* if debug_mode and counter == 5: break
BreakAtCap(c) == debug_mode /\ c = DebugCap

Call(op, a, b) == [op |-> op, at |-> <<a, b>>]

InitMain(files, tables) ==
  /\ pc = "enumerate"
  /\ debug_mode \in BOOLEAN
  /\ locations \in files
  /\ li = 1 /\ ei = 1 /\ counter = 0
  /\ allCompanyUrls = <<>>
  /\ response = NoResponse
  /\ ui = 1
  /\ detail_results = <<>>
  /\ resultObjs = <<>>
  /\ exported = <<>>
  /\ db_connection = None
  /\ table \in tables
  /\ table0 = table
  /\ session = <<>>
  /\ ri = 1 /\ errAt = 0 /\ dbError = FALSE
  /\ queried = <<>>
  /\ calls = <<>>
  /\ runs = 1
  /\ fn = "main"
  /\ result = EmptyDict

\* One iteration of the inner loop: the listing fetch of one country entry,
\* the counter, and the two breaks of debug mode.
EnumerateEntry ==
  /\ pc = "enumerate"
  /\ li <= Len(locations)
  /\ ei <= Len(locations[li])
  /\ \E resp \in ListingResponses :
       LET found == get_company_urls(resp, locations[li][ei])
       IN  /\ Len(allCompanyUrls) + Len(found) <= MaxUrls
           /\ allCompanyUrls' = allCompanyUrls \o found
           /\ response' = resp
  /\ counter' = counter + 1
  /\ calls' = Append(calls, Call("get_company_urls", li, ei))
  /\ IF BreakAtCap(counter')
     THEN pc' = "scrape" /\ UNCHANGED <<li, ei>>
     ELSE ei' = ei + 1 /\ UNCHANGED <<pc, li>>
  /\ UNCHANGED <<debug_mode, locations, ui, detail_results, resultObjs,
                 exported, db_connection, table, session, table0, ri, errAt,
                 dbError, queried, runs, fn, result>>

\* The inner loop is exhausted: the outer check, then the next location.
EnumerateNextLocation ==
  /\ pc = "enumerate"
  /\ li <= Len(locations)
  /\ ei > Len(locations[li])
  /\ IF BreakAtCap(counter)
     THEN pc' = "scrape" /\ UNCHANGED <<li, ei>>
     ELSE li' = li + 1 /\ ei' = 1 /\ UNCHANGED pc
  /\ UNCHANGED <<debug_mode, locations, counter, allCompanyUrls, response, ui,
                 detail_results, resultObjs, exported, db_connection, table,
                 session, table0, ri, errAt, dbError, queried, calls, runs,
                 fn, result>>

\* The outer loop is exhausted.
EnumerateDone ==
  /\ pc = "enumerate"
  /\ li > Len(locations)
  /\ pc' = "scrape"
  /\ UNCHANGED <<debug_mode, locations, li, ei, counter, allCompanyUrls,
                 response, ui, detail_results, resultObjs, exported,
                 db_connection, table, session, table0, ri, errAt, dbError,
                 queried, calls, runs, fn, result>>

InitEnum == InitMain(LocationFiles, {<<>>})

NextEnum == EnumerateEntry \/ EnumerateNextLocation \/ EnumerateDone

\* The enumeration loop alone, over every locations file of the bounds.
SpecEnum == InitEnum /\ [][NextEnum]_vars

(***************************************************************************)
(* main(), lines 199-204: one detail fetch per enumerated URL, a contact   *)
(* fetch when the details are truthy, and the assembly of the record.      *)
(***************************************************************************)
Truthy(d) == DOMAIN d # {}

\* {**company_details, **contact_details, "Country": country_name}
Assemble(company_details, contact_details, country_name) ==
  Merge(Merge(company_details, contact_details), [Country |-> country_name])

AppendedOrCleared(objs, company_details, contact_details, country_name) ==
  IF Truthy(company_details)
  THEN Append(objs, Assemble(company_details, contact_details, country_name))
  ELSE <<>>

\* if company_details: resultObjs.append(...)
Appended(objs, company_details, contact_details, country_name) ==
  IF Truthy(company_details)
  THEN Append(objs, Assemble(company_details, contact_details, country_name))
  ELSE objs

\* The fetches one iteration of the loop issues for the URL at position i.
ScrapeCalls(i, company_details) ==
  IF Truthy(company_details)
  THEN <<Call("scrape_company_details", i, 0), Call("get_contact_details", i, 0)>>
  ELSE <<Call("scrape_company_details", i, 0)>>

NextUrlRetrying(i, company_details) == IF Truthy(company_details) THEN i + 1 ELSE i

\* for country_name, company_url in allCompanyUrls: the loop moves on to the
\* next URL whatever the fetches of this one gave.
NextUrl(i, company_details) == i + 1

ScrapeCompany ==
  /\ pc = "scrape"
  /\ ui <= Len(allCompanyUrls)
  /\ \E dresp \in SiteDetailResponses, cresp \in SiteContactResponses :
       LET country_name == allCompanyUrls[ui][1]
           company_details == scrape_company_details(dresp)
           contact_details == get_contact_details(cresp)
       IN  /\ detail_results' = Append(detail_results, company_details)
           /\ resultObjs' =
                Appended(resultObjs, company_details, contact_details, country_name)
           /\ calls' = calls \o ScrapeCalls(ui, company_details)
  /\ ui' = NextUrl(ui, detail_results'[Len(detail_results')])
  /\ response' = NoResponse
  /\ UNCHANGED <<pc, debug_mode, locations, li, ei, counter, allCompanyUrls,
                 exported, db_connection, table, session, table0,
                 ri, errAt, dbError, queried, runs, fn, result>>

ScrapeDone ==
  /\ pc = "scrape"
  /\ ui > Len(allCompanyUrls)
  /\ pc' = "export"
  /\ response' = NoResponse
  /\ UNCHANGED <<debug_mode, locations, li, ei, counter, allCompanyUrls,
                 ui, detail_results, resultObjs, exported,
                 db_connection, table, session, table0, ri, errAt, dbError,
                 queried, calls, runs, fn, result>>

(***************************************************************************)
(* main(), lines 206-211: the two export files, named after the number of  *)
(* records.  save_to_json and save_to_excel catch their own failures; the  *)
(* output folder is taken to be creatable.                                 *)
(***************************************************************************)
ExportFile(ext, data) == [ext |-> ext, count |-> Len(data), data |-> data]

Export ==
  /\ pc = "export"
  /\ \E jsonOk \in BOOLEAN, xlsxOk \in BOOLEAN :
       exported' = (IF jsonOk THEN <<ExportFile("json", resultObjs)>> ELSE <<>>)
                     \o (IF xlsxOk THEN <<ExportFile("xlsx", resultObjs)>> ELSE <<>>)
  /\ calls' = calls \o <<Call("save_to_json", 0, 0), Call("save_to_excel", 0, 0)>>
  /\ pc' = "connect"
  /\ UNCHANGED <<debug_mode, locations, li, ei, counter, allCompanyUrls,
                 response, ui, detail_results, resultObjs, db_connection,
                 table, session, table0, ri, errAt, dbError, queried, runs,
                 fn, result>>

(***************************************************************************)
(* The storage.  table is the committed content of your_table, a sequence  *)
(* of rows; session is the content the open connection sees: the committed *)
(* rows and the writes of its open transaction.                            *)
(***************************************************************************)
HasColumns(record) == Columns \subseteq DOMAIN record

\* The parameters of the INSERT and of the UPDATE: OfferedServices goes
\* through json.dumps.
RowOf(record) ==
  [CompanyId |-> record.CompanyId, CompanyName |-> record.CompanyName,
   Address |-> record.Address,
   OfferedServices |-> json_dumps(record.OfferedServices),
   Phone |-> record.Phone, Email |-> record.Email,
   Website |-> record.Website, Country |-> record.Country]

\* SELECT CompanyId FROM your_table WHERE CompanyId = %s; fetchone()
Lookup(rows, company_id) ==
  SelectSeq(rows, LAMBDA row : row.CompanyId = company_id)

\* The UPDATE of the rows with the record's CompanyId when the lookup finds
\* one, the INSERT otherwise.
UpsertRow(rows, record) ==
  IF Lookup(rows, record.CompanyId) # <<>>
  THEN [j \in 1..Len(rows) |->
          IF rows[j].CompanyId = record.CompanyId THEN RowOf(record) ELSE rows[j]]
  ELSE Append(rows, RowOf(record))

CommitNothing(committed, seen) == committed

\* connection.commit()
Commit(committed, seen) == seen

StorageOutcomes == {"ok", "select_err", "write_err", "commit_err"}

\* connect_database: the connection, or None when connecting fails.
Connect ==
  /\ pc = "connect"
  /\ calls' = Append(calls, Call("connect_database", 0, 0))
  /\ \E ok \in BOOLEAN :
       IF ok
       THEN db_connection' = "open" /\ session' = table /\ pc' = "upsert"
       ELSE db_connection' = None /\ session' = session /\ pc' = "done"
  /\ UNCHANGED <<debug_mode, locations, li, ei, counter, allCompanyUrls,
                 response, ui, detail_results, resultObjs, exported, table,
                 table0, ri, errAt, dbError, queried, runs, fn, result>>

\* update_database, lines 131-135: the empty batch returns at once; else the
\* cursor is created, which fails when the connection is lost (the finally
\* block then finds the connection not connected).
UpsertBegin ==
  /\ pc = "upsert"
  /\ calls' = Append(calls, Call("update_database", runs, 0))
  /\ ri' = 1
  /\ IF resultObjs = <<>>
     THEN pc' = "close" /\ UNCHANGED dbError
     ELSE \E cursorOk \in BOOLEAN :
            IF cursorOk
            THEN pc' = "upsert_loop" /\ UNCHANGED dbError
            ELSE pc' = "close" /\ dbError' = TRUE
  /\ UNCHANGED <<debug_mode, locations, li, ei, counter, allCompanyUrls,
                 response, ui, detail_results, resultObjs, exported,
                 db_connection, table, session, table0, errAt, queried, runs,
                 fn, result>>

\* update_database, lines 136-170 and 172-176: one iteration of the loop.  A
\* storage error (mysql.connector.Error) is caught and ends the function; a
\* record without one of the columns raises KeyError while the parameters of
\* the write are built, which no handler catches: main ends there.
UpsertRecord ==
  /\ pc = "upsert_loop"
  /\ ri <= Len(resultObjs)
  /\ queried' = Append(queried, resultObjs[ri].CompanyId)
  /\ \E outcome \in StorageOutcomes :
       LET record == resultObjs[ri]
       IN  IF outcome = "select_err"
           THEN /\ pc' = "close" /\ errAt' = ri /\ dbError' = TRUE
                /\ UNCHANGED <<table, session, ri>>
           ELSE IF ~HasColumns(record)
           THEN /\ pc' = "crashed"
                /\ UNCHANGED <<table, session, ri, errAt, dbError>>
           ELSE IF outcome = "write_err"
           THEN /\ pc' = "close" /\ errAt' = ri /\ dbError' = TRUE
                /\ UNCHANGED <<table, session, ri>>
           ELSE IF outcome = "commit_err"
           THEN /\ pc' = "close" /\ errAt' = ri /\ dbError' = TRUE
                /\ session' = UpsertRow(session, record)
                /\ UNCHANGED <<table, ri>>
           ELSE /\ session' = UpsertRow(session, record)
                /\ table' = Commit(table, session')
                /\ ri' = ri + 1
                /\ UNCHANGED <<pc, errAt, dbError>>
  /\ UNCHANGED <<debug_mode, locations, li, ei, counter, allCompanyUrls,
                 response, ui, detail_results, resultObjs, exported,
                 db_connection, table0, calls, runs, fn, result>>

\* update_database, lines 171 and 174-176: the loop is exhausted.
UpsertReturn ==
  /\ pc = "upsert_loop"
  /\ ri > Len(resultObjs)
  /\ pc' = "close"
  /\ UNCHANGED <<debug_mode, locations, li, ei, counter, allCompanyUrls,
                 response, ui, detail_results, resultObjs, exported,
                 db_connection, table, session, table0, ri, errAt, dbError,
                 queried, calls, runs, fn, result>>

\* main(), lines 216-218: db_connection.close() ends the open transaction
\* without committing it.
CloseDb ==
  /\ pc = "close"
  /\ db_connection' = "closed"
  /\ session' = <<>>
  /\ pc' = "done"
  /\ UNCHANGED <<debug_mode, locations, li, ei, counter, allCompanyUrls,
                 response, ui, detail_results, resultObjs, exported, table,
                 table0, ri, errAt, dbError, queried, calls, runs, fn, result>>

Init == InitMain(MainLocationFiles, MainTables)

Next ==
  \/ EnumerateEntry \/ EnumerateNextLocation \/ EnumerateDone
  \/ ScrapeCompany \/ ScrapeDone
  \/ Export
  \/ Connect
  \/ UpsertBegin \/ UpsertRecord \/ UpsertReturn
  \/ CloseDb

\* One run of main().
Spec == Init /\ [][Next]_vars

(***************************************************************************)
(* update_database over a drawn batch and a drawn table, run again on the  *)
(* same batch: the state main is in when connect_database has returned a   *)
(* connection, and the next run of the program over the same records.      *)
(***************************************************************************)
OldRow2 ==
  [CompanyId |-> <<"2">>, CompanyName |-> <<"P">>, Address |-> <<"p">>,
   OfferedServices |-> json_dumps(<<<<"q">>>>), Phone |-> <<"7">>,
   Email |-> <<>>, Website |-> <<>>, Country |-> "FR"]

UpsertTables == {<<>>, <<OldRow>>, <<OldRow2, OldRow>>}

\* The records main assembles from full detail pages and the contact responses.
AssembledRecords ==
  {Assemble(scrape_company_details(Page(FullPage(attr))),
            get_contact_details(cresp), country) :
     attr \in {<<"1">>, <<" ", "2", " ">>, <<" ">>},
     cresp \in SiteContactResponses, country \in {"DE", "FR"}}

RecordBatches == SeqsUpTo(AssembledRecords, MaxRecords)

InitUpsert ==
  /\ pc = "upsert"
  /\ debug_mode = FALSE
  /\ locations = <<>>
  /\ li = 1 /\ ei = 1 /\ counter = 0
  /\ allCompanyUrls = <<>>
  /\ response = NoResponse
  /\ ui = 1
  /\ detail_results = <<>>
  /\ resultObjs \in RecordBatches
  /\ exported = <<>>
  /\ db_connection = "open"
  /\ table \in UpsertTables
  /\ table0 = table
  /\ session = table
  /\ ri = 1 /\ errAt = 0 /\ dbError = FALSE
  /\ queried = <<>>
  /\ calls = <<>>
  /\ runs = 1
  /\ fn = "update_database"
  /\ result = EmptyDict

\* The program is run again: a new connection, update_database over the same
\* records, the table as the runs before left it.
RunAgain ==
  /\ pc \in {"done", "crashed"}
  /\ runs < MaxRuns
  /\ runs' = runs + 1
  /\ pc' = "upsert"
  /\ db_connection' = "open"
  /\ session' = table
  /\ table0' = table
  /\ ri' = 1
  /\ errAt' = 0
  /\ UNCHANGED <<debug_mode, locations, li, ei, counter, allCompanyUrls,
                 response, ui, detail_results, resultObjs, exported, table,
                 dbError, queried, calls, fn, result>>

NextUpsert ==
  \/ UpsertBegin \/ UpsertRecord \/ UpsertReturn \/ CloseDb \/ RunAgain

SpecUpsert == InitUpsert /\ [][NextUpsert]_vars

(***************************************************************************)
(* The three fetch functions applied to every response of their domains.   *)
(***************************************************************************)
FnResponses(f) ==
  IF f = "get_company_urls" THEN ListingResponses
  ELSE IF f = "scrape_company_details" THEN DetailResponses
  ELSE ContactResponses

InitFn ==
  /\ pc = "call"
  /\ fn \in {"get_company_urls", "scrape_company_details", "get_contact_details"}
  /\ response \in FnResponses(fn)
  /\ debug_mode = FALSE
  /\ locations = <<>>
  /\ li = 1 /\ ei = 1 /\ counter = 0
  /\ allCompanyUrls = <<>>
  /\ ui = 1
  /\ detail_results = <<>>
  /\ resultObjs = <<>>
  /\ exported = <<>>
  /\ db_connection = None
  /\ table = <<>>
  /\ table0 = <<>>
  /\ session = <<>>
  /\ ri = 1 /\ errAt = 0 /\ dbError = FALSE
  /\ queried = <<>>
  /\ calls = <<>>
  /\ runs = 1
  /\ result = EmptyDict

Returned(value) ==
  /\ result' = value
  /\ pc' = "returned"
  /\ UNCHANGED <<debug_mode, locations, li, ei, counter, allCompanyUrls,
                 response, ui, detail_results, resultObjs, exported,
                 db_connection, table, session, table0, ri, errAt, dbError,
                 queried, calls, runs, fn>>

CallGetCompanyUrls ==
  /\ pc = "call" /\ fn = "get_company_urls"
  /\ Returned(get_company_urls(response, "DE"))

CallScrapeCompanyDetails ==
  /\ pc = "call" /\ fn = "scrape_company_details"
  /\ Returned(scrape_company_details(response))

CallGetContactDetails ==
  /\ pc = "call" /\ fn = "get_contact_details"
  /\ Returned(get_contact_details(response))

NextFn == CallGetCompanyUrls \/ CallScrapeCompanyDetails \/ CallGetContactDetails

SpecFn == InitFn /\ [][NextFn]_vars

(***************************************************************************)
(* What the claims speak of.                                               *)
(***************************************************************************)
CallsOf(op) == SelectSeq(calls, LAMBDA c : c.op = op)

\* The positions in calls of the calls of op, in order.
PositionsOf(op) ==
  SelectSeq([i \in 1..Len(calls) |-> i], LAMBDA i : calls[i].op = op)

\* The (location, entry) pairs a listing fetch was issued for, in order.
Fetched ==
  [i \in 1..Len(CallsOf("get_company_urls")) |-> CallsOf("get_company_urls")[i].at]

RECURSIVE EntriesFrom(_, _)
EntriesFrom(locs, l) ==
  IF l > Len(locs) THEN <<>>
  ELSE [e \in 1..Len(locs[l]) |-> <<l, e>>] \o EntriesFrom(locs, l + 1)

\* Every country entry of the locations file, in input order.
AllEntries == EntriesFrom(locations, 1)

IsPrefix(a, b) == Len(a) <= Len(b) /\ SubSeq(b, 1, Len(a)) = a

\* The positions of the URLs whose detail extraction gave a record, in order.
OkIndices ==
  SelectSeq([i \in 1..Len(detail_results) |-> i],
            LAMBDA i : Truthy(detail_results[i]))

DetailKeys == {"CompanyName", "Address", "OfferedServices", "CompanyId"}

ContactKeys == {"Phone", "Email", "Website"}

IdsOf(rows) == {rows[j].CompanyId : j \in 1..Len(rows)}

\* The last record of recs with the given CompanyId.
LastWithId(recs, id) ==
  recs[CHOOSE j \in 1..Len(recs) :
         /\ recs[j].CompanyId = id
         /\ \A k \in (j + 1)..Len(recs) : recs[k].CompanyId # id]

\* tbl is t0 after the upserts of recs: one row per CompanyId of t0 and of
\* recs, the row of a CompanyId of recs holding the values of the last such
\* record, every other row as it was in t0.
TableReflects(tbl, t0, recs) ==
  /\ \A j \in 1..Len(recs) : HasColumns(recs[j])
  /\ IdsOf(tbl) = IdsOf(t0) \cup IdsOf(recs)
  /\ \A j, k \in 1..Len(tbl) : tbl[j].CompanyId = tbl[k].CompanyId => j = k
  /\ \A j \in 1..Len(tbl) :
       IF tbl[j].CompanyId \in IdsOf(recs)
       THEN LET rec == LastWithId(recs, tbl[j].CompanyId)
            IN  /\ tbl[j].CompanyName = rec.CompanyName
                /\ tbl[j].Address = rec.Address
                /\ tbl[j].OfferedServices = json_dumps(rec.OfferedServices)
                /\ tbl[j].Phone = rec.Phone
                /\ tbl[j].Email = rec.Email
                /\ tbl[j].Website = rec.Website
                /\ tbl[j].Country = rec.Country
       ELSE \E k \in 1..Len(t0) : t0[k] = tbl[j]

(***************************************************************************)
(* C1.  Once the configuration and the locations are read, main() runs to  *)
(* its end without an uncaught exception whatever the fetches and the      *)
(* storage do, and the export files it writes hold the records gathered.   *)
(* Fails: a record whose contact fetch failed has no Phone, and the upsert *)
(* raises KeyError, which nothing catches.                                 *)
(***************************************************************************)
C1_RunCompletes ==
  /\ pc # "crashed"
  /\ \A i \in 1..Len(exported) :
       exported[i].data = resultObjs /\ exported[i].count = Len(resultObjs)

(***************************************************************************)
(* C2.  get_contact_details returns, for every outcome of its request, a   *)
(* structure with the three fields Phone, Email and Website: all empty on  *)
(* failure, and on success each non-empty exactly when its anchor is on    *)
(* the page.  Fails: on failure the code returns the empty dict.           *)
(***************************************************************************)
C2_ContactHasThreeFields ==
  (pc = "returned" /\ fn = "get_contact_details") =>
    /\ DOMAIN result = ContactKeys
    /\ response.net # "ok" =>
         result.Phone = <<>> /\ result.Email = <<>> /\ result.Website = <<>>
    /\ response.net = "ok" =>
         /\ result.Phone # <<>> <=> response.page.phone # <<>>
         /\ result.Email # <<>> <=> response.page.mail # <<>>
         /\ result.Website # <<>> <=> response.page.site # <<>>

(***************************************************************************)
(* C3, as claimed.  scrape_company_details returns the empty result when   *)
(* any one of the heading, the address block, the services block or the    *)
(* company-id marker is absent, and a record of all four fields only when  *)
(* all four are present.                                                   *)
(***************************************************************************)
C3_AllOrNothingOverFour ==
  (pc = "returned" /\ fn = "scrape_company_details") =>
    IF /\ response.net = "ok"
       /\ response.page.h1 # <<>> /\ response.page.address # <<>>
       /\ response.page.services # <<>> /\ response.page.company # <<>>
    THEN DOMAIN result = DetailKeys
    ELSE DOMAIN result = {}

(***************************************************************************)
(* C3, amended.  scrape_company_details is all-or-nothing over the         *)
(* heading, the address block and the company-id marker: when the fetch    *)
(* fails or one of these three is absent it returns the empty result, and  *)
(* otherwise a record of all four fields, whose OfferedServices are the    *)
(* trimmed list items of the services block, in order: the empty list      *)
(* when the services block is absent.                                      *)
(***************************************************************************)
C3_AllOrNothingOverThree ==
  (pc = "returned" /\ fn = "scrape_company_details") =>
    IF /\ response.net = "ok"
       /\ response.page.h1 # <<>> /\ response.page.address # <<>>
       /\ response.page.company # <<>>
    THEN /\ DOMAIN result = DetailKeys
         /\ result.CompanyName = Strip(response.page.h1[1])
         /\ result.CompanyId = Strip(response.page.company[1])
         /\ IF response.page.services = <<>>
            THEN result.OfferedServices = <<>>
            ELSE /\ Len(result.OfferedServices) = Len(response.page.services[1])
                 /\ \A i \in 1..Len(result.OfferedServices) :
                      result.OfferedServices[i] = Strip(response.page.services[1][i])
    ELSE DOMAIN result = {}

\* A page without a services block, the three other elements present, gave
\* a record with no services.
C3_Witness ==
  /\ pc = "returned" /\ fn = "scrape_company_details"
  /\ response.net = "ok"
  /\ response.page.services = <<>>
  /\ response.page.h1 # <<>> /\ response.page.address # <<>>
  /\ response.page.company # <<>>
  /\ DOMAIN result = DetailKeys
  /\ result.OfferedServices = <<>>

(***************************************************************************)
(* C4.  update_database is idempotent and update-over-insert: after it ran *)
(* twice over the same records with no storage error, the table holds      *)
(* exactly one row per CompanyId of the records, with the values of the    *)
(* last record of that id; the table never holds two rows of one           *)
(* CompanyId.  Fails on a record whose contact fetch failed (C2): the      *)
(* KeyError ends both runs before the record's row is written.             *)
(***************************************************************************)
C4_UpsertIdempotent ==
  /\ \A j, k \in 1..Len(table) : table[j].CompanyId = table[k].CompanyId => j = k
  /\ (runs >= 2 /\ pc \in {"done", "crashed"} /\ ~dbError) =>
       \A id \in IdsOf(resultObjs) :
         /\ id \in IdsOf(table)
         /\ \A j \in 1..Len(table) :
              table[j].CompanyId = id =>
                LET rec == LastWithId(resultObjs, id)
                IN  \A col \in (DOMAIN rec) \ {"OfferedServices"} :
                      table[j][col] = rec[col]

\* C4 on the batches whose records all have the eight columns: there the
\* two runs leave one row per CompanyId, with the last record's values.
C4_IdempotentOnFullRecords ==
  (\A i \in 1..Len(resultObjs) : HasColumns(resultObjs[i])) => C4_UpsertIdempotent

(***************************************************************************)
(* C5.  Commit per record, abort on storage failure: when a storage error  *)
(* occurs while update_database processes the k-th record, the committed   *)
(* table is the table of the start with the upserts of records 1..k-1 and  *)
(* nothing of record k or later, the error does not reach main, and main   *)
(* then closes the connection.                                             *)
(***************************************************************************)
C5_CommitPerRecord ==
  errAt > 0 =>
    /\ pc \in {"close", "done"}
    /\ TableReflects(table, table0, SubSeq(resultObjs, 1, errAt - 1))
    /\ pc = "done" => db_connection = "closed" /\ session = <<>>

\* A storage error at the second record: the row the first record inserted
\* stayed committed and the connection is closed.
C5_Witness ==
  /\ errAt = 2 /\ pc = "done"
  /\ Len(table) = Len(table0) + 1
  /\ db_connection = "closed"

(***************************************************************************)
(* C6, as claimed.  In debug mode with more than 5 locations the loop      *)
(* fetches the listings of exactly the first 5 locations and of no later   *)
(* one, whatever the locations hold; without debug mode it fetches every   *)
(* configured entry.                                                       *)
(***************************************************************************)
C6_FirstFiveLocations ==
  pc = "scrape" =>
    IF debug_mode /\ Len(locations) > 5
    THEN Fetched = SelectSeq(AllEntries, LAMBDA x : x[1] <= 5)
    ELSE debug_mode \/ Fetched = AllEntries

(***************************************************************************)
(* C6, amended.  In debug mode the loop fetches the listings of exactly    *)
(* the first 5 country entries of the locations, taken in input order      *)
(* (all of them when there are at most 5), and of no later entry: a        *)
(* location with several entries counts several times and one with none    *)
(* does not count.  Without debug mode it fetches every configured entry.  *)
(***************************************************************************)
C6_FirstFiveEntries ==
  /\ IsPrefix(Fetched, AllEntries)
  /\ debug_mode => Len(Fetched) <= 5
  /\ pc = "scrape" =>
       Fetched = IF debug_mode /\ Len(AllEntries) > 5
                 THEN SubSeq(AllEntries, 1, 5)
                 ELSE AllEntries

\* Debug mode, more than 5 locations: the enumeration stopped at the fifth
\* entry, which is not in the fifth location, with entries left over.
C6_Witness ==
  /\ pc = "scrape" /\ debug_mode
  /\ Len(locations) > 5
  /\ Len(AllEntries) > 5
  /\ Len(Fetched) = 5
  /\ Fetched[5][1] # 5

(***************************************************************************)
(* C7.  Failure isolation between companies: the records are, in           *)
(* enumeration order, one per URL whose detail extraction gave a record    *)
(* and none for the others, each with the country of its own URL and the   *)
(* details extracted for it.                                               *)
(***************************************************************************)
C7_FailureIsolation ==
  /\ Len(detail_results) = ui - 1
  /\ pc \notin {"enumerate", "scrape"} => Len(detail_results) = Len(allCompanyUrls)
  /\ Len(resultObjs) = Len(OkIndices)
  /\ \A j \in 1..Len(OkIndices) :
       /\ resultObjs[j].Country = allCompanyUrls[OkIndices[j]][1]
       /\ \A k \in DetailKeys : resultObjs[j][k] = detail_results[OkIndices[j]][k]

\* The first URL's extraction failed, the second's did not: one record,
\* with the second URL's country.
C7_Witness ==
  /\ pc = "done"
  /\ Len(detail_results) = 2
  /\ ~Truthy(detail_results[1]) /\ Truthy(detail_results[2])
  /\ allCompanyUrls[1][1] # allCompanyUrls[2][1]
  /\ Len(resultObjs) = 1
  /\ resultObjs[1].Country = allCompanyUrls[2][1]

C8_WitnessOrder ==
  /\ response = Page(<<Alpha, Beta>>)
  /\ allCompanyUrls = <<<<"FR", "/c/alpha">>, <<"FR", "/c/beta">>>>

(***************************************************************************)
(* C9.  Every record update_database looks up, inserts or updates has a    *)
(* non-empty CompanyId, and no row of the table has an empty CompanyId.    *)
(* Fails: a data-company attribute of blanks is trimmed to the empty       *)
(* string, the details are still truthy, and the record is upserted.       *)
(***************************************************************************)
C9_CompanyIdNonEmpty ==
  /\ \A i \in 1..Len(queried) : queried[i] # <<>>
  /\ \A j \in 1..Len(table) : table[j].CompanyId # <<>>

(***************************************************************************)
(* C10, as claimed.  At the end of a run: one listing fetch per            *)
(* configured country, all before the first detail fetch; one detail       *)
(* fetch and one contact fetch per enumerated URL, in order; and exactly   *)
(* one call of update_database, after the export.                          *)
(***************************************************************************)
C10_OncePerUnit ==
  pc \in {"done", "crashed"} =>
    /\ Fetched = AllEntries
    /\ \A i \in 1..Len(PositionsOf("get_company_urls")) :
         \A j \in 1..Len(PositionsOf("scrape_company_details")) :
           PositionsOf("get_company_urls")[i] < PositionsOf("scrape_company_details")[j]
    /\ [i \in 1..Len(CallsOf("scrape_company_details")) |->
          CallsOf("scrape_company_details")[i].at[1]]
         = [i \in 1..Len(allCompanyUrls) |-> i]
    /\ [i \in 1..Len(CallsOf("get_contact_details")) |->
          CallsOf("get_contact_details")[i].at[1]]
         = [i \in 1..Len(allCompanyUrls) |-> i]
    /\ Len(CallsOf("update_database")) = 1
    /\ \A i \in 1..Len(PositionsOf("update_database")) :
         \A j \in 1..Len(PositionsOf("save_to_excel")) :
           PositionsOf("save_to_excel")[j] < PositionsOf("update_database")[i]

(***************************************************************************)
(* C10, amended.  The listing fetches are issued for the configured        *)
(* country entries in input order, each at most once: for all of them      *)
(* without debug mode, for the first 5 in debug mode; all of them come     *)
(* before the first detail fetch.  The detail fetch is issued exactly once *)
(* per enumerated URL, in enumeration order; the contact fetch exactly     *)
(* once per URL whose detail extraction gave a record, right after that    *)
(* detail fetch, and never for a URL whose detail extraction failed; no    *)
(* fetch is retried.  The two exports are attempted once, after the last   *)
(* fetch; update_database is called once, after the exports, when          *)
(* connect_database gave a connection, and not at all otherwise.           *)
(***************************************************************************)
C10_OncePerAttemptedUnit ==
  /\ IsPrefix(Fetched, AllEntries)
  /\ pc # "enumerate" =>
       Fetched = IF debug_mode /\ Len(AllEntries) > 5
                 THEN SubSeq(AllEntries, 1, 5)
                 ELSE AllEntries
  /\ \A i \in 1..Len(PositionsOf("get_company_urls")) :
       \A j \in 1..Len(PositionsOf("scrape_company_details")) :
         PositionsOf("get_company_urls")[i] < PositionsOf("scrape_company_details")[j]
  /\ [i \in 1..Len(CallsOf("scrape_company_details")) |->
        CallsOf("scrape_company_details")[i].at[1]]
       = [i \in 1..(ui - 1) |-> i]
  /\ pc \notin {"enumerate", "scrape"} => ui - 1 = Len(allCompanyUrls)
  /\ [i \in 1..Len(CallsOf("get_contact_details")) |->
        CallsOf("get_contact_details")[i].at[1]]
       = OkIndices
  /\ \A i \in 1..Len(calls) :
       calls[i].op = "get_contact_details" =>
         /\ i > 1
         /\ calls[i - 1].op = "scrape_company_details"
         /\ calls[i - 1].at = calls[i].at
  /\ Len(CallsOf("save_to_json")) = (IF pc \in {"enumerate", "scrape", "export"} THEN 0 ELSE 1)
  /\ Len(CallsOf("save_to_excel")) = Len(CallsOf("save_to_json"))
  /\ \A i \in 1..Len(PositionsOf("save_to_json")) :
       \A j \in 1..Len(calls) :
         calls[j].op \in {"scrape_company_details", "get_contact_details"} =>
           j < PositionsOf("save_to_json")[i]
  /\ Len(CallsOf("update_database")) =
       (IF pc \in {"upsert_loop", "close", "crashed"} \/ db_connection = "closed"
        THEN 1 ELSE 0)
  /\ pc = "done" => db_connection \in {None, "closed"}
  /\ \A i \in 1..Len(PositionsOf("update_database")) :
       \A j \in 1..Len(PositionsOf("save_to_excel")) :
         PositionsOf("save_to_excel")[j] < PositionsOf("update_database")[i]

\* A finished run in which the first URL's detail fetch failed and got no
\* contact fetch, the second URL got both, and update_database was called.
C10_Witness ==
  /\ pc = "done" /\ db_connection = "closed"
  /\ Len(detail_results) = 2
  /\ ~Truthy(detail_results[1]) /\ Truthy(detail_results[2])
  /\ Len(CallsOf("get_contact_details")) = 1
  /\ Len(CallsOf("update_database")) = 1
====
